---- MODULE Spec2Model ----
(***************************************************************************)
(* Model of the ordered-set container of package set (src/set/set.go).     *)
(* The stored slice p.rv is a sequence; Go's 0-based indices are kept and  *)
(* read through At.  The comparator closures of a set are fixed at         *)
(* construction and are represented by the variable cmp.                   *)
(***************************************************************************)
EXTENDS Integers, Sequences, FiniteSets, TLC

(* ---------------------------- bounds ----------------------------------- *)
MaxKey == 1
MaxLen == 3
MaxBatch == 2
MaxArgs == 2
MaxArr == 4
MaxStored == 2
MaxThreads == 2

(* ---------------------------- elements --------------------------------- *)
\* Elements are records with a sort field k and a second field d, in the
\* manner of testStruct.
Elems == [k : 0..MaxKey, d : BOOLEAN]

\* The comparator pairs a set can be constructed with.
\*   total : less is a total order, equal is the default reflect.DeepEqual
\*           (the setting of Ints, Strings, ...)
\*   same  : less and equal both look at the field k (TestReplace)
\*   deep  : less looks at k, equal is the default reflect.DeepEqual
\*   cross : less looks at k, equal looks at d
Modes == {"total", "same", "deep", "cross"}

VARIABLES items, cmp, stable, call, prev, ret

\* The storage behind the slices: heap maps an array to its slots (as many
\* as its capacity), and a slice is an array and a length.  srv is the rv
\* of a set s, crv the rv of its clone c, ext a slice a caller holds, and
\* wrapped tells whether s and c are reached through a safeSet; recv is the
\* receiver of the last call.
VARIABLES heap, srv, crv, ext, wrapped, recv

\* The goroutines calling one safeSet, and its RWMutex.
VARIABLES thr, lock

memVars == <<heap, srv, crv, ext, wrapped>>

thrVars == <<thr, lock>>

vars == <<items, cmp, stable, call, prev, ret, memVars, recv, thrVars>>

less(a, b) ==
    IF cmp = "total" THEN a.k < b.k \/ (a.k = b.k /\ ~a.d /\ b.d)
    ELSE a.k < b.k

equal(a, b) ==
    IF cmp = "same" THEN a.k = b.k
    ELSE IF cmp = "cross" THEN a.d = b.d
    ELSE a = b

(* ---------------------------- slices ----------------------------------- *)
At(s, i) == s[i + 1]

SetAt(s, i, v) == [s EXCEPT ![i + 1] = v]

SeqsUpTo(S, n) == UNION {[1..m -> S] : m \in 0..n}

\* reflect.Copy of n elements from srcPos to dstPos (memmove semantics).
ReflectMove(rv, dstPos, srcPos, n) ==
    [x \in 1..Len(rv) |->
        IF x - 1 >= dstPos /\ x - 1 < dstPos + n
        THEN At(rv, (x - 1) - dstPos + srcPos)
        ELSE rv[x]]

\* ReflectInsertAt without the move of the tail.
ReflectInsertAtNoMove(slice, v, pos) == SetAt(Append(slice, v), pos, v)

ReflectInsertAt(slice, v, pos) ==
    LET newSlice == Append(slice, v)
        moved == ReflectMove(newSlice, pos + 1, pos, Len(newSlice) - (pos + 1))
    IN  SetAt(moved, pos, v)

ReflectErase(slice, pos) ==
    IF pos >= Len(slice) THEN slice
    ELSE LET moved == IF pos < Len(slice) - 1
                      THEN ReflectMove(slice, pos, pos + 1, Len(slice) - (pos + 1))
                      ELSE slice
         IN  SubSeq(moved, 1, Len(slice) - 1)

(* ---------------------------- sorting ---------------------------------- *)
\* sort.SliceIsSorted: no element is less than its predecessor.
SliceIsSorted(s) == \A i \in 1..(Len(s) - 1) : ~less(s[i + 1], s[i])

Perms(s) ==
    {[i \in 1..Len(s) |-> s[p[i]]] : p \in Permutations(1..Len(s))}

RECURSIVE InsertSorted(_, _, _)
\* place v after every element of s[1..i] that is not greater than it
InsertSorted(s, v, i) ==
    IF i >= 1 /\ less(v, s[i])
    THEN InsertSorted(s, v, i - 1)
    ELSE SubSeq(s, 1, i) \o <<v>> \o SubSeq(s, i + 1, Len(s))

RECURSIVE SliceStable(_, _, _)
\* sort.SliceStable: the sorted permutation that keeps tied elements in
\* their input order.
SliceStable(s, i, acc) ==
    IF i > Len(s) THEN acc
    ELSE SliceStable(s, i + 1, InsertSorted(acc, s[i], Len(acc)))

\* set.sort that leaves every slice as it is.
sortNone(slice) == {slice}

\* set.sort: an already sorted slice is left alone; otherwise it is sorted,
\* by sort.SliceStable for a stable set and by sort.Slice otherwise.
\* sort.Slice does not promise the order of tied elements: every sorted
\* permutation is an outcome.
sort(slice) ==
    IF SliceIsSorted(slice) THEN {slice}
    ELSE IF stable THEN {SliceStable(slice, 1, <<>>)}
    ELSE {t \in Perms(slice) : SliceIsSorted(t)}

(* ---------------------------- Search ----------------------------------- *)
RECURSIVE SortSearchUpper(_, _, _, _, _)
\* The search with f(i) = less(v, rv[pos+i]): an upper bound.
SortSearchUpper(rv, v, pos, i, j) ==
    IF i < j
    THEN LET h == (i + j) \div 2
         IN  IF ~less(v, At(rv, pos + h))
             THEN SortSearchUpper(rv, v, pos, h + 1, j)
             ELSE SortSearchUpper(rv, v, pos, i, h)
    ELSE i

RECURSIVE SortSearch(_, _, _, _, _)
\* sort.Search(n, f) with f(i) = !less(rv[pos+i], v); i, j start at 0, n.
SortSearch(rv, v, pos, i, j) ==
    IF i < j
    THEN LET h == (i + j) \div 2
         IN  IF less(At(rv, pos + h), v)
             THEN SortSearch(rv, v, pos, h + 1, j)
             ELSE SortSearch(rv, v, pos, i, h)
    ELSE i

Search(rv, v, pos) == SortSearch(rv, v, pos, 0, Len(rv) - pos)

(* ---------------------------- membership ------------------------------- *)
\* The result of a query: b is the returned boolean, n the returned number,
\* panic is TRUE when the call ends in an index-out-of-range panic.
hasOne(rv, v, pos) ==
    LET n == Search(rv, v, pos)
    IN  IF pos + n = Len(rv) THEN [b |-> FALSE, panic |-> FALSE]
        ELSE IF pos + n > Len(rv) THEN [b |-> FALSE, panic |-> TRUE]
        ELSE IF ~equal(At(rv, pos + n), v) THEN [b |-> FALSE, panic |-> FALSE]
        ELSE [b |-> TRUE, panic |-> FALSE]

RECURSIVE hasSliceLoop(_, _, _, _)
hasSliceLoop(rv, slice, i, pos) ==
    IF i < Len(slice) /\ pos < Len(rv)
    THEN LET v == At(slice, i)
             p1 == pos + Search(rv, v, pos)
         IN  IF p1 = Len(rv) \/ ~equal(At(rv, p1), v)
             THEN FALSE
             ELSE hasSliceLoop(rv, slice, i + 1, p1)
    ELSE TRUE

hasSlice(rv, slice, pos) ==
    {[b |-> IF Len(sorted) > Len(rv) THEN FALSE
            ELSE IF Len(rv) = 0 THEN TRUE
            ELSE hasSliceLoop(rv, sorted, 0, pos),
      panic |-> FALSE] : sorted \in sort(slice)}

\* An argument of Has/Insert/Replace/Erase: one element (s has length 1) or
\* a slice of the container's type.
Has(rv, arg, pos) ==
    IF arg.slice THEN hasSlice(rv, arg.s, pos)
    ELSE {hasOne(rv, arg.s[1], pos)}

(* ---------------------------- Insert ----------------------------------- *)
\* InsertOne that counts a present element as added.
InsertOneCountsPresent(rv, v) ==
    IF Len(rv) = 0 THEN [rv |-> Append(rv, v), n |-> 1]
    ELSE LET pos == Search(rv, v, 0)
         IN  IF pos < Len(rv) /\ equal(At(rv, pos), v)
             THEN [rv |-> rv, n |-> 1]
             ELSE LET n == IF pos < Len(rv) /\ less(At(rv, pos), v)
                           THEN pos + 1 ELSE pos
                  IN  [rv |-> ReflectInsertAt(rv, v, n), n |-> 1]

\* Mutators return [rv, n]: the new stored slice and the returned count.
InsertOne(rv, v) ==
    IF Len(rv) = 0 THEN [rv |-> Append(rv, v), n |-> 1]
    ELSE LET pos == Search(rv, v, 0)
         IN  IF pos < Len(rv) /\ equal(At(rv, pos), v)
             THEN [rv |-> rv, n |-> 0]
             ELSE LET n == IF pos < Len(rv) /\ less(At(rv, pos), v)
                           THEN pos + 1 ELSE pos
                  IN  [rv |-> ReflectInsertAt(rv, v, n), n |-> 1]

RECURSIVE InsertSliceLoop(_, _, _, _, _)
InsertSliceLoop(rv, slice, i, pos, added) ==
    IF i >= Len(slice) THEN [rv |-> rv, n |-> added]
    ELSE IF Len(rv) = 0
    THEN InsertSliceLoop(Append(rv, At(slice, i)), slice, i + 1, pos, added + 1)
    ELSE LET v == At(slice, i)
             p1 == pos + Search(rv, v, pos)
         IN  IF p1 < Len(rv)
             THEN LET e == At(rv, p1)
                  IN  IF equal(e, v)
                      THEN InsertSliceLoop(rv, slice, i + 1, p1, added)
                      ELSE LET n == IF less(e, v) THEN p1 + 1 ELSE p1
                               p2 == IF p1 > 0 THEN p1 - 1 ELSE p1
                           IN  InsertSliceLoop(ReflectInsertAt(rv, v, n),
                                               slice, i + 1, p2, added + 1)
             ELSE LET n == p1
                      p2 == p1 - 1
                      p3 == IF p2 > 0 THEN p2 - 1 ELSE p2
                  IN  InsertSliceLoop(ReflectInsertAt(rv, v, n),
                                      slice, i + 1, p3, added + 1)

InsertSlice(rv, slice, sorted) ==
    IF Len(rv) = 0 /\ sorted THEN {[rv |-> slice, n |-> Len(slice)]}
    ELSE {InsertSliceLoop(rv, t, 0, 0, 0) :
            t \in IF sorted THEN {slice} ELSE sort(slice)}

RECURSIVE Insert(_, _, _, _)
\* set.Insert(v...): the arguments from index i on, applied to rv.
Insert(rv, args, i, added) ==
    IF i > Len(args) THEN {[rv |-> rv, n |-> added]}
    ELSE UNION {Insert(o.rv, args, i + 1, added + o.n) :
                  o \in IF args[i].slice
                        THEN InsertSlice(rv, args[i].s, FALSE)
                        ELSE {InsertOne(rv, args[i].s[1])}}

(* ---------------------------- Replace ---------------------------------- *)
\* ReplaceOne that skips a present element as InsertOne does.
ReplaceOneSkip(rv, v) == InsertOne(rv, v)

ReplaceOne(rv, v) ==
    IF Len(rv) = 0 THEN [rv |-> Append(rv, v), n |-> 1]
    ELSE LET pos == Search(rv, v, 0)
         IN  IF pos < Len(rv) /\ equal(At(rv, pos), v)
             THEN [rv |-> SetAt(rv, pos, v), n |-> 0]
             ELSE LET n == IF pos < Len(rv) /\ less(At(rv, pos), v)
                           THEN pos + 1 ELSE pos
                  IN  [rv |-> ReflectInsertAt(rv, v, n), n |-> 1]

RECURSIVE ReplaceSliceLoop(_, _, _, _, _)
ReplaceSliceLoop(rv, slice, i, pos, replaced) ==
    IF i >= Len(slice) THEN [rv |-> rv, n |-> replaced]
    ELSE IF Len(rv) = 0
    THEN ReplaceSliceLoop(Append(rv, At(slice, i)), slice, i + 1, pos, replaced + 1)
    ELSE LET v == At(slice, i)
             p1 == pos + Search(rv, v, pos)
         IN  IF p1 < Len(rv)
             THEN LET e == At(rv, p1)
                  IN  IF equal(e, v)
                      THEN ReplaceSliceLoop(SetAt(rv, p1, v), slice, i + 1, p1, replaced)
                      ELSE LET n == IF less(e, v) THEN p1 + 1 ELSE p1
                               p2 == IF p1 > 0 THEN p1 - 1 ELSE p1
                           IN  ReplaceSliceLoop(ReflectInsertAt(rv, v, n),
                                                slice, i + 1, p2, replaced + 1)
             ELSE LET n == p1
                      p2 == p1 - 1
                      p3 == IF p2 > 0 THEN p2 - 1 ELSE p2
                  IN  ReplaceSliceLoop(ReflectInsertAt(rv, v, n),
                                       slice, i + 1, p3, replaced + 1)

ReplaceSlice(rv, slice, sorted) ==
    IF Len(rv) = 0 /\ sorted THEN {[rv |-> slice, n |-> Len(slice)]}
    ELSE {ReplaceSliceLoop(rv, t, 0, 0, 0) :
            t \in IF sorted THEN {slice} ELSE sort(slice)}

RECURSIVE Replace(_, _, _, _)
Replace(rv, args, i, replaced) ==
    IF i > Len(args) THEN {[rv |-> rv, n |-> replaced]}
    ELSE UNION {Replace(o.rv, args, i + 1, replaced + o.n) :
                  o \in IF args[i].slice
                        THEN ReplaceSlice(rv, args[i].s, FALSE)
                        ELSE {ReplaceOne(rv, args[i].s[1])}}

(* ---------------------------- Erase ------------------------------------ *)
EraseOne(rv, v) ==
    IF Len(rv) = 0 THEN [rv |-> rv, n |-> 0]
    ELSE LET pos == Search(rv, v, 0)
         IN  IF pos = Len(rv) \/ ~equal(At(rv, pos), v)
             THEN [rv |-> rv, n |-> 0]
             ELSE [rv |-> ReflectErase(rv, pos), n |-> 1]

RECURSIVE EraseSliceLoop(_, _, _, _, _)
EraseSliceLoop(rv, slice, i, pos, deled) ==
    IF i < Len(slice) /\ pos < Len(rv)
    THEN LET v == At(slice, i)
             p1 == pos + Search(rv, v, pos)
         IN  IF p1 = Len(rv) \/ ~equal(At(rv, p1), v)
             THEN EraseSliceLoop(rv, slice, i + 1, p1, deled)
             ELSE EraseSliceLoop(ReflectErase(rv, p1), slice, i + 1, p1, deled + 1)
    ELSE [rv |-> rv, n |-> deled]

EraseSlice(rv, slice, sorted) ==
    IF Len(rv) = 0 THEN {[rv |-> rv, n |-> 0]}
    ELSE {EraseSliceLoop(rv, t, 0, 0, 0) :
            t \in IF sorted THEN {slice} ELSE sort(slice)}

RECURSIVE Erase(_, _, _, _)
Erase(rv, args, i, deled) ==
    IF i > Len(args) THEN {[rv |-> rv, n |-> deled]}
    ELSE UNION {Erase(o.rv, args, i + 1, deled + o.n) :
                  o \in IF args[i].slice
                        THEN EraseSlice(rv, args[i].s, FALSE)
                        ELSE {EraseOne(rv, args[i].s[1])}}

(* ---------------------------- construction ----------------------------- *)
\* newSet with a non-nil slice: an empty slice is kept, a non-empty one is
\* inserted into a zero slice.
newSet(slice) ==
    IF Len(slice) = 0 THEN {slice}
    ELSE {o.rv : o \in InsertSlice(<<>>, slice, FALSE)}

\* set.New(slice, sorted): a sorted slice is adopted as it is, any other is
\* inserted into a zero slice through Insert.
New(slice, sorted) ==
    IF sorted THEN {slice}
    ELSE {o.rv : o \in Insert(<<>>, <<[slice |-> TRUE, s |-> slice]>>, 1, 0)}

(* ---------------------------- Intersection ----------------------------- *)
RECURSIVE IntersectionLoop(_, _, _, _, _)
IntersectionLoop(rv, other, i, pos, dst) ==
    IF i < Len(other) /\ pos < Len(rv)
    THEN LET e == At(other, i)
             p1 == pos + Search(rv, e, pos)
         IN  IF p1 = Len(rv)
             THEN IntersectionLoop(rv, other, i + 1, p1, dst)
             ELSE IF equal(At(rv, p1), e)
             THEN IntersectionLoop(rv, other, i + 1, p1, Append(dst, At(rv, p1)))
             ELSE IntersectionLoop(rv, other, i + 1, p1, dst)
    ELSE dst

Intersection(rv, other) == IntersectionLoop(rv, other, 0, 0, <<>>)

(* ---------------------------- calls ------------------------------------ *)
One(e) == [slice |-> FALSE, s |-> <<e>>]

Slice(q) == [slice |-> TRUE, s |-> q]

Slices == SeqsUpTo(Elems, MaxBatch)

\* The argument lists of a variadic call: one slice, or up to MaxArgs
\* single elements.
ArgLists ==
    {<<Slice(q)>> : q \in Slices}
    \cup {[i \in 1..Len(q) |-> One(q[i])] : q \in SeqsUpTo(Elems, MaxArgs) \ {<<>>}}

NoDuplicate(s) == \A i, j \in 1..Len(s) : i # j => ~equal(s[i], s[j])

NoRet == [n |-> 0, b |-> FALSE, s |-> <<>>, panic |-> FALSE]

\* No call is in progress and none has just returned.
Idle == [op |-> "idle", args |-> <<>>, pos |-> 0, sorted |-> FALSE]

\* A nil slice, and the storage of a program that holds no slice yet.
NoSlice == [arr |-> 0, len |-> 0]

NoMem ==
    /\ heap = [a \in 1..MaxArr |-> <<>>]
    /\ srv = NoSlice /\ crv = NoSlice /\ ext = NoSlice
    /\ wrapped = FALSE
    /\ recv = "-"

NoThreads ==
    /\ thr = <<>>
    /\ lock = [w |-> 0, r |-> {}]

Init ==
    /\ NoMem /\ NoThreads
    /\ cmp \in Modes
    /\ stable \in BOOLEAN
    /\ \E slice \in SeqsUpTo(Elems, MaxLen) :
          /\ items \in newSet(slice)
          /\ call = [op |-> "newSet", args |-> <<Slice(slice)>>, pos |-> 0, sorted |-> FALSE]
    /\ prev = <<>>
    /\ ret = [NoRet EXCEPT !.s = items]

CallInsert ==
    /\ call.op = "idle"
    /\ UNCHANGED <<memVars, recv, thrVars>>
    /\ \E args \in ArgLists : \E o \in Insert(items, args, 1, 0) :
        /\ Len(o.rv) <= MaxLen
        /\ items' = o.rv
        /\ call' = [op |-> "Insert", args |-> args, pos |-> 0, sorted |-> FALSE]
        /\ prev' = items
        /\ ret' = [NoRet EXCEPT !.n = o.n]
        /\ UNCHANGED <<cmp, stable>>

CallReplace ==
    /\ call.op = "idle"
    /\ UNCHANGED <<memVars, recv, thrVars>>
    /\ \E args \in ArgLists : \E o \in Replace(items, args, 1, 0) :
        /\ Len(o.rv) <= MaxLen
        /\ items' = o.rv
        /\ call' = [op |-> "Replace", args |-> args, pos |-> 0, sorted |-> FALSE]
        /\ prev' = items
        /\ ret' = [NoRet EXCEPT !.n = o.n]
        /\ UNCHANGED <<cmp, stable>>

CallErase ==
    /\ call.op = "idle"
    /\ UNCHANGED <<memVars, recv, thrVars>>
    /\ \E args \in ArgLists : \E o \in Erase(items, args, 1, 0) :
        /\ items' = o.rv
        /\ call' = [op |-> "Erase", args |-> args, pos |-> 0, sorted |-> FALSE]
        /\ prev' = items
        /\ ret' = [NoRet EXCEPT !.n = o.n]
        /\ UNCHANGED <<cmp, stable>>

CallSearch ==
    /\ call.op = "idle"
    /\ UNCHANGED <<memVars, recv, thrVars>>
    /\ \E v \in Elems, pos \in 0..Len(items) :
        /\ call' = [op |-> "Search", args |-> <<One(v)>>, pos |-> pos, sorted |-> FALSE]
        /\ prev' = items
        /\ ret' = [NoRet EXCEPT !.n = Search(items, v, pos)]
        /\ UNCHANGED <<items, cmp, stable>>

CallHas ==
    /\ call.op = "idle"
    /\ UNCHANGED <<memVars, recv, thrVars>>
    /\ \E v \in Elems, pos \in 0..Len(items) :
      \E o \in Has(items, One(v), pos) :
        /\ call' = [op |-> "Has", args |-> <<One(v)>>, pos |-> pos, sorted |-> FALSE]
        /\ prev' = items
        /\ ret' = [NoRet EXCEPT !.b = o.b, !.panic = o.panic]
        /\ UNCHANGED <<items, cmp, stable>>

\* s = s.New(slice, sorted).  A caller that declares the slice sorted hands
\* over a slice that is sorted and free of duplicates.
CallNew ==
    /\ call.op = "idle"
    /\ UNCHANGED <<memVars, recv, thrVars>>
    /\ \E slice \in Slices, sorted \in BOOLEAN :
        /\ sorted => SliceIsSorted(slice) /\ NoDuplicate(slice)
        /\ \E rv \in New(slice, sorted) :
              /\ items' = rv
              /\ ret' = [NoRet EXCEPT !.s = rv]
        /\ call' = [op |-> "New", args |-> <<Slice(slice)>>, pos |-> 0, sorted |-> sorted]
        /\ prev' = items
        /\ UNCHANGED <<cmp, stable>>

\* s.Intersection(o) for a set o built by the constructor with the same
\* comparators; the result is a new set, the receiver is not changed.
CallIntersection ==
    /\ call.op = "idle"
    /\ UNCHANGED <<memVars, recv, thrVars>>
    /\ \E slice \in Slices : \E other \in newSet(slice) :
        /\ call' = [op |-> "Intersection", args |-> <<Slice(other)>>, pos |-> 0, sorted |-> FALSE]
        /\ prev' = items
        /\ ret' = [NoRet EXCEPT !.s = Intersection(items, other)]
        /\ UNCHANGED <<items, cmp, stable>>

\* The caller has looked at the result; the set is ready for the next call.
Return ==
    /\ call.op # "idle"
    /\ recv' = "-"
    /\ UNCHANGED <<memVars, thrVars>>
    /\ call' = Idle
    /\ prev' = <<>>
    /\ ret' = NoRet
    /\ UNCHANGED <<items, cmp, stable>>

Next ==
    \/ Return
    \/ CallInsert
    \/ CallReplace
    \/ CallErase
    \/ CallSearch
    \/ CallHas
    \/ CallNew
    \/ CallIntersection

Spec == Init /\ [][Next]_vars

(* ---------------------------- properties ------------------------------- *)
Range(s) == {s[i] : i \in 1..Len(s)}

Ascending(s) == \A i \in 1..(Len(s) - 1) : ~less(s[i + 1], s[i])

StrictlyAscending(s) == \A i \in 1..(Len(s) - 1) : less(s[i], s[i + 1])

HasEqualPair(s) == \E i, j \in 1..Len(s) : i # j /\ equal(s[i], s[j])

Holds(s, v) == \E i \in 1..Len(s) : equal(s[i], v)

RemoveAt(s, i) == SubSeq(s, 1, i - 1) \o SubSeq(s, i + 1, Len(s))

SameUnderEqual(s, t) ==
    Len(s) = Len(t) /\ \A i \in 1..Len(s) : equal(s[i], t[i])

\* less and equal agree: two elements are equal exactly when neither is less
\* than the other.
Agree == \A a, b \in Elems : equal(a, b) <=> (~less(a, b) /\ ~less(b, a))

\* The last call had one single-element argument / one slice argument.
OneArg == Len(call.args) = 1 /\ ~call.args[1].slice

SliceArg == Len(call.args) = 1 /\ call.args[1].slice

ArgV == call.args[1].s[1]

ArgSlice == call.args[1].s

\* i is the lower bound of v in s from position p on (0-based).
LowerBound(s, v, p, i) ==
    /\ p <= i /\ i <= Len(s)
    /\ \A j \in p..(i - 1) : less(At(s, j), v)
    /\ i < Len(s) => ~less(At(s, i), v)

RECURSIVE InsertEach(_, _, _, _)
InsertEach(rv, q, i, n) ==
    IF i > Len(q) THEN [rv |-> rv, n |-> n]
    ELSE LET o == InsertOne(rv, q[i]) IN InsertEach(o.rv, q, i + 1, n + o.n)

RECURSIVE EraseEach(_, _, _, _)
EraseEach(rv, q, i, n) ==
    IF i > Len(q) THEN [rv |-> rv, n |-> n]
    ELSE LET o == EraseOne(rv, q[i]) IN EraseEach(o.rv, q, i + 1, n + o.n)

\* C1: the stored sequence is sorted ascending under less in every state,
\* for every comparator pair, and so is the sequence of the set returned by
\* Intersection.
C1_Sortedness ==
    /\ Ascending(items)
    /\ call.op = "Intersection" => Ascending(ret.s)

\* A batch Insert of an unsorted two-element slice into a one-element set
\* added both, leaving three elements in strictly ascending order.
C1_Witness ==
    /\ call.op = "Insert" /\ SliceArg
    /\ ~Ascending(ArgSlice) /\ ret.n = 2 /\ Len(prev) = 1
    /\ StrictlyAscending(items)

\* C2: the stored sequence never holds two positions with equal elements,
\* for every comparator pair.
C2_NoDuplicates == ~HasEqualPair(items)

C4_InsertIdempotent ==
    (call.op = "Insert" /\ OneArg /\ Holds(prev, ArgV))
        => ret.n = 0 /\ items = prev

\* C5: Replace returns the number of argument elements inserted plus the
\* number of argument elements that overwrote a present element, which is
\* every argument element.
C5_ReplaceCount ==
    call.op = "Replace"
        => ret.n = IF SliceArg THEN Len(ArgSlice) ELSE Len(call.args)

\* C6: when less and equal agree and the set holds an element equal to v,
\* Replace(v) keeps the length, puts v at that element's index and leaves
\* the other indices alone, so that Search(v, 0) returns that index;
\* Insert(v) leaves the sequence as it was.
C6_ReplaceInPlace ==
    (Agree /\ OneArg /\ Holds(prev, ArgV))
        => /\ call.op = "Replace" =>
                /\ Len(items) = Len(prev)
                /\ \A i \in 1..Len(prev) :
                      /\ equal(prev[i], ArgV) =>
                            items[i] = ArgV /\ Search(items, ArgV, 0) = i - 1
                      /\ ~equal(prev[i], ArgV) => items[i] = prev[i]
           /\ call.op = "Insert" => items = prev

\* Replace overwrote the second element with an equal element that differs
\* from it in the other field.
C6_Witness ==
    /\ call.op = "Replace" /\ OneArg /\ Agree
    /\ Len(prev) >= 2 /\ equal(prev[2], ArgV) /\ prev[2] # ArgV
    /\ items[2] = ArgV

\* C7: Erase(v) of an absent v returns 0 and changes nothing; Erase(v) of a
\* present v returns 1 and removes exactly the element equal to v.
C7_EraseCorrect ==
    (call.op = "Erase" /\ OneArg)
        => IF Holds(prev, ArgV)
           THEN /\ ret.n = 1
                /\ \E i \in 1..Len(prev) :
                      equal(prev[i], ArgV) /\ items = RemoveAt(prev, i)
           ELSE ret.n = 0 /\ items = prev

\* C8 as stated: a batch Insert (Erase) leaves the same sequence and returns
\* the same count as inserting (erasing) the elements one at a time in any
\* order.
C8_BatchEqualsSingles ==
    ((call.op = "Insert" \/ call.op = "Erase") /\ SliceArg)
        => \A q \in Perms(ArgSlice) :
              LET o == IF call.op = "Insert" THEN InsertEach(prev, q, 1, 0)
                       ELSE EraseEach(prev, q, 1, 0)
              IN  o.rv = items /\ o.n = ret.n

\* C8 amended: when less and equal agree, a batch Insert returns the same
\* count as the one-at-a-time inserts in any order and leaves a sequence of
\* the same length that is equal to theirs element by element under equal;
\* a batch Erase returns the same count and leaves the same sequence as the
\* one-at-a-time erases in any order.
C8_BatchEqualsSinglesAgree ==
    ((call.op = "Insert" \/ call.op = "Erase") /\ SliceArg /\ Agree)
        => \A q \in Perms(ArgSlice) :
              IF call.op = "Insert"
              THEN LET o == InsertEach(prev, q, 1, 0)
                   IN  SameUnderEqual(o.rv, items) /\ o.n = ret.n
              ELSE LET o == EraseEach(prev, q, 1, 0)
                   IN  o.rv = items /\ o.n = ret.n

\* A batch Erase of an unsorted two-element slice removed both elements
\* from a set that kept a third, with comparators that agree.
C8_Witness ==
    /\ call.op = "Erase" /\ SliceArg /\ Agree
    /\ ~Ascending(ArgSlice) /\ ret.n = 2 /\ Len(items) = 1

\* C9: a set built from a sequence not declared sorted is strictly ascending
\* under less, holds each distinct input element exactly once and holds
\* nothing else.
C9_CanonicalConstruction ==
    ((call.op = "newSet" \/ call.op = "New") /\ ~call.sorted)
        => /\ StrictlyAscending(items)
           /\ \A e \in Range(ArgSlice) :
                 Cardinality({i \in 1..Len(items) : equal(items[i], e)}) = 1
           /\ Range(items) \subseteq Range(ArgSlice)

\* C10: on a sorted duplicate-free set, Has(v, p) returns true exactly when
\* some index >= p holds an element equal to v, and changes nothing.
C10_HasOne ==
    (call.op = "Has" /\ OneArg /\ Ascending(prev) /\ ~HasEqualPair(prev))
        => /\ ~ret.panic
           /\ ret.b <=> \E i \in call.pos..(Len(prev) - 1) : equal(At(prev, i), ArgV)
           /\ items = prev

RECURSIVE Filter(_, _, _)
\* The elements of s, from index i on and in their order, that have an
\* equal element in o.
Filter(s, o, i) ==
    IF i > Len(s) THEN <<>>
    ELSE IF Holds(o, s[i]) THEN <<s[i]>> \o Filter(s, o, i + 1)
    ELSE Filter(s, o, i + 1)

\* C11: for sorted duplicate-free sets A and B, A.Intersection(B) is a new
\* set holding, in A's order, exactly the elements of A that have an equal
\* element in B, each once, and A is left as it was.
C11_Intersection ==
    (/\ call.op = "Intersection"
     /\ Ascending(prev) /\ ~HasEqualPair(prev)
     /\ Ascending(ArgSlice) /\ ~HasEqualPair(ArgSlice))
        => ret.s = Filter(prev, ArgSlice, 1) /\ items = prev

\* C12: Insert returns Len after minus Len before and Erase returns Len
\* before minus Len after, for every argument list.
C12_CountAccounting ==
    /\ call.op = "Insert" => ret.n = Len(items) - Len(prev)
    /\ call.op = "Erase" => ret.n = Len(prev) - Len(items)

\* An Insert call naming the same absent element twice added it once, and
\* an Erase call naming a present and an absent element removed one.
C12_Witness ==
    \/ /\ call.op = "Insert" /\ Len(call.args) = 2
       /\ call.args[1] = call.args[2] /\ ~Holds(prev, ArgV)
       /\ ret.n = 1 /\ Len(prev) >= 1
    \/ /\ call.op = "Erase" /\ Len(call.args) = 2
       /\ Holds(prev, call.args[1].s[1]) /\ ~Holds(prev, call.args[2].s[1])
       /\ ret.n = 1 /\ Len(prev) >= 2

(* ---------------------------- queries ---------------------------------- *)
\* Has with a single element or a slice, from any start position up to one
\* past the length.
CallHasAny ==
    /\ call.op = "idle"
    /\ UNCHANGED <<memVars, recv, thrVars>>
    /\ \E arg \in {One(v) : v \in Elems} \cup {Slice(q) : q \in Slices},
          pos \in 0..(Len(items) + 1) :
      \E o \in Has(items, arg, pos) :
        /\ call' = [op |-> "Has", args |-> <<arg>>, pos |-> pos, sorted |-> FALSE]
        /\ prev' = items
        /\ ret' = [NoRet EXCEPT !.b = o.b, !.panic = o.panic]
        /\ UNCHANGED <<items, cmp, stable>>

\* Search from any start position up to one past the length.
CallSearchAny ==
    /\ call.op = "idle"
    /\ UNCHANGED <<memVars, recv, thrVars>>
    /\ \E v \in Elems, pos \in 0..(Len(items) + 1) :
        /\ call' = [op |-> "Search", args |-> <<One(v)>>, pos |-> pos, sorted |-> FALSE]
        /\ prev' = items
        /\ ret' = [NoRet EXCEPT !.n = Search(items, v, pos)]
        /\ UNCHANGED <<items, cmp, stable>>

QueryNext ==
    \/ Return
    \/ CallHasAny
    \/ CallSearchAny

\* The queries on a set built by the constructor.
QuerySpec == Init /\ [][QueryNext]_vars

\* C17: Has(v, p) and Search(v, p) for a value v and a start position p past
\* the length end normally, Has returns false, and the set is left as it
\* was.
C17_StartPastEnd ==
    ((call.op = "Has" \/ call.op = "Search") /\ OneArg /\ call.pos > Len(prev))
        => /\ ~ret.panic
           /\ call.op = "Has" => ~ret.b
           /\ items = prev

\* C19: on a sorted duplicate-free set, for a start position p <= len and a
\* query no longer than the container, Has(query, p) is true exactly when
\* Has(e, p) is true for every element e of the query.
C19_BatchHasAgrees ==
    (/\ call.op = "Has" /\ SliceArg
     /\ Ascending(prev) /\ ~HasEqualPair(prev)
     /\ call.pos <= Len(prev) /\ Len(ArgSlice) <= Len(prev))
        => (ret.b <=> \A e \in Range(ArgSlice) : hasOne(prev, e, call.pos).b)

(* ---------------------------- storage ---------------------------------- *)
\* A set or slice nobody has made yet.
Absent == [arr |-> 0, len |-> -1]

\* The zero value of the element type, which fills the slots of a new array.
Zero == [k |-> 0, d |-> FALSE]

\* The elements a slice shows, and the capacity of its array.
View(h, sl) == IF sl.arr = 0 THEN <<>> ELSE SubSeq(h[sl.arr], 1, sl.len)

Cap(h, sl) == IF sl.arr = 0 THEN 0 ELSE Len(h[sl.arr])

\* The array a new allocation gets.
Free(h) == CHOOSE a \in 1..MaxArr : h[a] = <<>> /\ \A b \in 1..(a - 1) : h[b] # <<>>

\* The storage as the slices refs (a sequence) can tell it apart: arrays no
\* slice points to are gone, the arrays are numbered in the order the slices
\* name them, and a slot beyond the length of every slice of its array,
\* which is written before it is read again, holds Zero.  [h, sl]: the heap
\* and the slices renumbered.
Settle(h, refs) ==
    LET n == Len(refs)
        Live == {refs[i].arr : i \in 1..n} \ {0}
        First(a) == CHOOSE i \in 1..n :
                        refs[i].arr = a /\ \A j \in 1..(i - 1) : refs[j].arr # a
        Rank(a) == IF a = 0 THEN 0
                   ELSE Cardinality({refs[j].arr : j \in 1..First(a)} \ {0})
        Top(a) == CHOOSE m \in 0..Len(h[a]) :
                        /\ \E i \in 1..n : refs[i].arr = a /\ refs[i].len = m
                        /\ \A i \in 1..n : refs[i].arr = a => refs[i].len <= m
        Old(k) == CHOOSE a \in Live : Rank(a) = k
    IN  [h |-> [k \in 1..MaxArr |->
                  IF k > Cardinality(Live) THEN <<>>
                  ELSE LET a == Old(k)
                       IN  SubSeq(h[a], 1, Top(a))
                               \o [i \in 1..(Len(h[a]) - Top(a)) |-> Zero]],
         sl |-> [i \in 1..n |-> [refs[i] EXCEPT !.arr = Rank(@)]]]

\* Writing a sequence over the first slots of a slice's array.
Write(h, sl, content) ==
    IF sl.arr = 0 THEN h
    ELSE [h EXCEPT ![sl.arr] = content \o SubSeq(@, Len(content) + 1, Len(@))]

\* reflect.MakeSlice(type, n, n) followed by reflect.Copy of content; a
\* slice of no elements has no array.
MakeSlice(h, content) ==
    IF Len(content) = 0 THEN [h |-> h, sl |-> NoSlice]
    ELSE LET a == Free(h)
         IN  [h |-> [h EXCEPT ![a] = content], sl |-> [arr |-> a, len |-> Len(content)]]

\* reflect.Append: in place while the array has room, and into a new array
\* of twice the capacity otherwise.
ReflectAppend(h, sl, v) ==
    IF sl.len < Cap(h, sl)
    THEN [h |-> [h EXCEPT ![sl.arr][sl.len + 1] = v],
          sl |-> [sl EXCEPT !.len = @ + 1]]
    ELSE LET c == IF Cap(h, sl) = 0 THEN 1 ELSE 2 * Cap(h, sl)
             a == Free(h)
         IN  [h |-> [h EXCEPT ![a] = View(h, sl) \o <<v>>
                                       \o [i \in 1..(c - sl.len - 1) |-> Zero]],
              sl |-> [arr |-> a, len |-> sl.len + 1]]

\* The single-element mutators on stored slices: [h, sl, n].  An insertion
\* appends and then moves the tail within the array; an overwrite and an
\* erasure work within the array, and an erasure leaves the last slot as it
\* was.
memInsertOne(h, sl, v) ==
    LET o == InsertOne(View(h, sl), v)
    IN  IF o.n = 0 THEN [h |-> h, sl |-> sl, n |-> 0]
        ELSE LET a == ReflectAppend(h, sl, v)
             IN  [h |-> Write(a.h, a.sl, o.rv), sl |-> a.sl, n |-> 1]

memReplaceOne(h, sl, v) ==
    LET o == ReplaceOne(View(h, sl), v)
    IN  IF o.n = 0 THEN [h |-> Write(h, sl, o.rv), sl |-> sl, n |-> 0]
        ELSE LET a == ReflectAppend(h, sl, v)
             IN  [h |-> Write(a.h, a.sl, o.rv), sl |-> a.sl, n |-> 1]

memEraseOne(h, sl, v) ==
    LET o == EraseOne(View(h, sl), v)
    IN  IF o.n = 0 THEN [h |-> h, sl |-> sl, n |-> 0]
        ELSE [h |-> Write(h, sl, o.rv), sl |-> [sl EXCEPT !.len = @ - 1], n |-> 1]

\* ReSort that sorts a copy of the stored slice.
memReSortCopy(h, sl) == {h}

\* set.ReSort sorts the stored slice where it is.
memReSort(h, sl) == {Write(h, sl, t) : t \in sort(View(h, sl))}

\* Clone that hands out the stored slice itself.
memCloneShared(h, sl) == [h |-> h, sl |-> sl]

\* set.Clone: a new array of exactly len slots, and a copy into it.
memClone(h, sl) == MakeSlice(h, View(h, sl))

Holder(r) == IF r = "s" THEN srv ELSE crv

\* What a call on the receiver r leaves behind: o is its [h, sl, n].
Commit(r, op, v, o) ==
    /\ o.sl.len <= MaxStored
    /\ LET m == Settle(o.h, <<IF r = "s" THEN o.sl ELSE srv,
                              IF r = "c" THEN o.sl ELSE crv, ext>>)
       IN  heap' = m.h /\ srv' = m.sl[1] /\ crv' = m.sl[2] /\ ext' = m.sl[3]
    /\ call' = [op |-> op, args |-> <<One(v)>>, pos |-> 0, sorted |-> FALSE]
    /\ recv' = r
    /\ prev' = [s |-> View(heap, srv), c |-> View(heap, crv)]
    /\ ret' = [NoRet EXCEPT !.n = o.n]
    /\ UNCHANGED <<items, cmp, stable, wrapped, thrVars>>

Receivers == {r \in {"s", "c"} : Holder(r) # Absent}

\* s := set.New([]T{}, less) or its NewStable and NewSafe forms; no clone
\* and no outside slice yet.
AliasInit ==
    /\ NoThreads
    /\ heap = [a \in 1..MaxArr |-> <<>>]
    /\ srv = NoSlice /\ crv = Absent /\ ext = Absent
    /\ wrapped \in BOOLEAN
    /\ recv = "-"
    /\ cmp \in Modes
    /\ stable \in BOOLEAN
    /\ items = <<>>
    /\ call = Idle /\ prev = <<>> /\ ret = NoRet

InsertOn ==
    /\ call.op = "idle"
    /\ \E r \in Receivers, v \in Elems :
          Commit(r, "Insert", v, memInsertOne(heap, Holder(r), v))

ReplaceOn ==
    /\ call.op = "idle"
    /\ \E r \in Receivers, v \in Elems :
          Commit(r, "Replace", v, memReplaceOne(heap, Holder(r), v))

EraseOn ==
    /\ call.op = "idle"
    /\ \E r \in Receivers, v \in Elems :
          Commit(r, "Erase", v, memEraseOne(heap, Holder(r), v))

ReSortOn ==
    /\ call.op = "idle"
    /\ \E r \in Receivers : \E h \in memReSort(heap, Holder(r)) :
          Commit(r, "ReSort", Zero, [h |-> h, sl |-> Holder(r), n |-> 0])

\* c := s.Clone()
CloneS ==
    /\ call.op = "idle"
    /\ LET o == memClone(heap, srv)
           m == Settle(o.h, <<srv, o.sl, ext>>)
       IN  heap' = m.h /\ srv' = m.sl[1] /\ crv' = m.sl[2] /\ ext' = m.sl[3]
    /\ call' = [op |-> "Clone", args |-> <<>>, pos |-> 0, sorted |-> FALSE]
    /\ recv' = "s"
    /\ prev' = [s |-> View(heap, srv), c |-> View(heap, crv)]
    /\ ret' = NoRet
    /\ UNCHANGED <<items, cmp, stable, wrapped, thrVars>>

\* ext := r.Slice(): the stored slice itself for a set, and the slice of a
\* clone for a safeSet.
SliceOf ==
    /\ call.op = "idle"
    /\ \E r \in Receivers :
          LET o == IF wrapped THEN memClone(heap, Holder(r))
                   ELSE [h |-> heap, sl |-> Holder(r)]
              m == Settle(o.h, <<srv, crv, o.sl>>)
          IN  /\ heap' = m.h /\ srv' = m.sl[1] /\ crv' = m.sl[2] /\ ext' = m.sl[3]
              /\ call' = [op |-> "Slice", args |-> <<>>, pos |-> 0, sorted |-> FALSE]
              /\ recv' = r
              /\ ret' = [NoRet EXCEPT !.s = View(o.h, o.sl)]
    /\ prev' = [s |-> View(heap, srv), c |-> View(heap, crv)]
    /\ UNCHANGED <<items, cmp, stable, wrapped, thrVars>>

\* ext[i] = v, by the caller that holds ext.
WriteExt ==
    /\ call.op = "idle"
    /\ ext # Absent
    /\ \E i \in 0..(ext.len - 1), v \in Elems :
          /\ heap' = [heap EXCEPT ![ext.arr][i + 1] = v]
          /\ call' = [op |-> "write", args |-> <<One(v)>>, pos |-> i, sorted |-> FALSE]
    /\ recv' = "ext"
    /\ prev' = [s |-> View(heap, srv), c |-> View(heap, crv)]
    /\ ret' = NoRet
    /\ UNCHANGED <<items, cmp, stable, srv, crv, ext, wrapped, thrVars>>

CloneNext ==
    \/ Return
    \/ InsertOn
    \/ ReplaceOn
    \/ EraseOn
    \/ ReSortOn
    \/ CloneS

\* A set and its clone, used by one goroutine.
CloneSpec == AliasInit /\ [][CloneNext]_vars

SliceNext ==
    \/ Return
    \/ InsertOn
    \/ ReplaceOn
    \/ EraseOn
    \/ ReSortOn
    \/ SliceOf
    \/ WriteExt

\* A set and the slice its Slice returned, used by one goroutine.
SliceSpec == AliasInit /\ [][SliceNext]_vars

\* C18: right after c = s.Clone() the two sequences are the same position
\* by position; after that an Insert, Replace, Erase or ReSort on s leaves
\* c's sequence as it was and one on c leaves s's sequence as it was, for a
\* set and for a safeSet.
C18_CloneIndependent ==
    /\ call.op = "Clone" => View(heap, crv) = View(heap, srv)
    /\ (call.op \in {"Insert", "Replace", "Erase", "ReSort"} /\ crv # Absent)
          => /\ recv = "s" => View(heap, crv) = prev.c
             /\ recv = "c" => View(heap, srv) = prev.s

\* An Erase on s removed an element of a set that had a clone of two or
\* more elements, and the clone still shows what it showed.
C18_Witness ==
    /\ call.op = "Erase" /\ recv = "s" /\ ret.n = 1
    /\ crv # Absent /\ Len(prev.c) >= 2 /\ prev.c = prev.s
    /\ View(heap, crv) = prev.c
    /\ View(heap, srv) # prev.s

\* C20: after elements were overwritten in place through the slice that
\* Slice returned, ReSort leaves a sequence sorted ascending under less
\* that is a permutation of the contents just before the call.
C20_ReSortRestores ==
    (call.op = "ReSort" /\ recv = "s")
        => /\ Ascending(View(heap, srv))
           /\ View(heap, srv) \in Perms(prev.s)

\* ReSort was called on a set whose sequence was out of order.
C20_Witness ==
    /\ call.op = "ReSort" /\ recv = "s"
    /\ Len(prev.s) >= 2 /\ ~Ascending(prev.s)
    /\ Ascending(View(heap, srv))
    /\ ext.arr = srv.arr

(* ---------------------------- safeSet ---------------------------------- *)
\* A goroutine is outside a call ("idle", with what a Slice or Intersection
\* call left until its next call), in
\* the inner call ("in"), in the middle of an inner mutator ("mid": the
\* array is written, p.rv is not yet assigned), or stopped by a panic
\* ("panicked").  new is the slice a mutator is about to assign, before the
\* contents the inner set had when the inner call began, after the contents
\* it had when the inner call ended, snap the slice Slice returned and at
\* the contents the inner set had between whole mutators when snap was
\* copied.
IdleT ==
    [pc |-> "idle", op |-> "-", arg |-> <<>>, new |-> Absent,
     before |-> <<>>, after |-> <<>>, snap |-> Absent, at |-> <<>>]

Threads == 1..MaxThreads

\* The goroutines use the elements without payload; the comparator of
\* their set is the total one.
SafeElems == {e \in Elems : ~e.d}

Mutators == {"Insert", "Replace", "Erase"}

Readers == {"Len", "Search", "Equal", "Clone"}

\* sync.RWMutex: RLock goes through while no writer holds the lock.
CanRLockAlways(l) == TRUE

CanRLock(l) == l.w = 0

\* Lock goes through while nobody holds the lock.
CanLock(l) == l.w = 0 /\ l.r = {}

RLock(l, t) == [l EXCEPT !.r = @ \cup {t}]

RUnlock(l, t) == [l EXCEPT !.r = @ \ {t}]

Lock(l, t) == [l EXCEPT !.w = t]

Unlock(l, t) == [l EXCEPT !.w = 0]

\* The contents of the inner set between whole mutators: what a mutator in
\* its middle found, or else what is stored.
Committed ==
    IF \E t \in Threads : thr[t].pc = "mid"
    THEN thr[CHOOSE t \in Threads : thr[t].pc = "mid"].before
    ELSE View(heap, srv)

\* The storage and the goroutines after a step that left heap h, p.rv s and
\* goroutines th.
Store(h, s, th) ==
    LET m == Settle(h, <<s>> \o [t \in Threads |-> th[t].new]
                             \o [t \in Threads |-> th[t].snap])
    IN  /\ heap' = m.h
        /\ srv' = m.sl[1]
        /\ thr' = [t \in Threads |->
                     [th[t] EXCEPT !.new = m.sl[1 + t],
                                   !.snap = m.sl[1 + MaxThreads + t]]]

\* w := set.NewSafe(set.New([]T{}, less)), shared by the goroutines.
SafeInit ==
    /\ heap = [a \in 1..MaxArr |-> <<>>]
    /\ srv = NoSlice /\ crv = Absent /\ ext = Absent
    /\ wrapped = TRUE
    /\ recv = "-"
    /\ cmp = "total"
    /\ stable = FALSE
    /\ items = <<>>
    /\ call = Idle /\ prev = <<>> /\ ret = NoRet
    /\ thr = [t \in Threads |-> IdleT]
    /\ lock = [w |-> 0, r |-> {}]

SafeFrame == UNCHANGED <<items, cmp, stable, call, prev, ret, crv, ext, wrapped, recv>>

\* p.Lock() of Insert, Replace, Erase, ReSort and Intersection.  The
\* argument of Intersection is a set of a slice, or a safeSet.
BeginWrite(t) ==
    /\ thr[t].pc = "idle"
    /\ CanLock(lock)
    /\ \E op \in Mutators \cup {"ReSort", "Intersection"} :
       \E arg \in IF op \in Mutators THEN {<<v>> : v \in SafeElems}
                  ELSE IF op = "ReSort" THEN {<<>>}
                  ELSE {<<"set", q>> : q \in SeqsUpTo(SafeElems, 1)} \cup {<<"safeSet">>} :
          Store(heap, srv, [thr EXCEPT ![t] = [IdleT EXCEPT !.pc = "in", !.op = op, !.arg = arg]])
    /\ lock' = Lock(lock, t)
    /\ SafeFrame

\* p.RLock() of Len, Search, Has, Equal, Clone and Slice.
BeginRead(t) ==
    /\ thr[t].pc = "idle"
    /\ CanRLock(lock)
    /\ \E op \in Readers \cup {"Has", "Slice"} :
       \E arg \in IF op = "Has"
                  THEN {<<v, pos>> : v \in SafeElems, pos \in 0..(Len(View(heap, srv)) + 1)}
                  ELSE {<<>>} :
          Store(heap, srv, [thr EXCEPT ![t] = [IdleT EXCEPT !.pc = "in", !.op = op, !.arg = arg]])
    /\ lock' = RLock(lock, t)
    /\ SafeFrame

\* Zero and New take no lock.
BeginUnlocked(t) ==
    /\ thr[t].pc = "idle"
    /\ \E op \in {"Zero", "New"} :
          Store(heap, srv, [thr EXCEPT ![t] = [IdleT EXCEPT !.pc = "in", !.op = op]])
    /\ UNCHANGED lock
    /\ SafeFrame

\* The inner Insert, Replace or Erase up to the assignment of p.rv: the
\* array is written, or a new one is made.
MutateArray(t) ==
    /\ thr[t].pc = "in" /\ thr[t].op \in Mutators
    /\ LET v == thr[t].arg[1]
           o == IF thr[t].op = "Insert" THEN memInsertOne(heap, srv, v)
                ELSE IF thr[t].op = "Replace" THEN memReplaceOne(heap, srv, v)
                ELSE memEraseOne(heap, srv, v)
       IN  /\ o.sl.len <= MaxStored
           /\ Store(o.h, srv, [thr EXCEPT ![t].pc = "mid", ![t].new = o.sl,
                                          ![t].before = View(heap, srv)])
    /\ UNCHANGED lock
    /\ SafeFrame

\* p.rv = ...; the inner call returns; p.Unlock().
AssignUnlock(t) ==
    /\ thr[t].pc = "mid"
    /\ Store(heap, thr[t].new, [thr EXCEPT ![t] = IdleT])
    /\ lock' = Unlock(lock, t)
    /\ SafeFrame

\* p.set.ReSort(); p.Unlock().
ReSortUnlock(t) ==
    /\ thr[t].pc = "in" /\ thr[t].op = "ReSort"
    /\ \E h \in memReSort(heap, srv) :
          Store(h, srv, [thr EXCEPT ![t] = IdleT])
    /\ lock' = Unlock(lock, t)
    /\ SafeFrame

\* p.set.Intersection(s); p.Unlock(); return p.  The inner call builds a
\* new set, which is dropped, and leaves p.set as it is; s.(*set) panics
\* for a safeSet, before p.Unlock().
IntersectionUnlock(t) ==
    /\ thr[t].pc = "in" /\ thr[t].op = "Intersection"
    /\ IF thr[t].arg[1] = "safeSet"
       THEN /\ Store(heap, srv, [thr EXCEPT ![t].pc = "panicked"])
            /\ UNCHANGED lock
       ELSE /\ Store(heap, srv, [thr EXCEPT ![t].pc = "idle", ![t].before = View(heap, srv),
                                            ![t].after = View(heap, srv)])
            /\ lock' = Unlock(lock, t)
    /\ SafeFrame

\* n := p.set.Len() and the like; p.RUnlock().
ReadUnlock(t) ==
    /\ thr[t].pc = "in" /\ thr[t].op \in Readers
    /\ Store(heap, srv, [thr EXCEPT ![t] = IdleT])
    /\ lock' = RUnlock(lock, t)
    /\ SafeFrame

\* ok := p.set.Has(v, pos); p.RUnlock().  hasOne panics for a position past
\* the end, before p.RUnlock().
HasUnlock(t) ==
    /\ thr[t].pc = "in" /\ thr[t].op = "Has"
    /\ IF hasOne(View(heap, srv), thr[t].arg[1], thr[t].arg[2]).panic
       THEN /\ Store(heap, srv, [thr EXCEPT ![t].pc = "panicked"])
            /\ UNCHANGED lock
       ELSE /\ Store(heap, srv, [thr EXCEPT ![t] = IdleT])
            /\ lock' = RUnlock(lock, t)
    /\ SafeFrame

\* s := p.set.Clone(); p.RUnlock(); return s.Slice().
SliceUnlock(t) ==
    /\ thr[t].pc = "in" /\ thr[t].op = "Slice"
    /\ LET o == memClone(heap, srv)
       IN  Store(o.h, srv, [thr EXCEPT ![t].pc = "idle", ![t].snap = o.sl,
                                       ![t].at = Committed])
    /\ lock' = RUnlock(lock, t)
    /\ SafeFrame

\* p.set.Zero() reads p.rv, and p.set.New the comparators only.
UnlockedReturn(t) ==
    /\ thr[t].pc = "in" /\ thr[t].op \in {"Zero", "New"}
    /\ Store(heap, srv, [thr EXCEPT ![t] = IdleT])
    /\ UNCHANGED lock
    /\ SafeFrame

SafeNext ==
    \E t \in Threads :
        \/ BeginWrite(t)
        \/ BeginRead(t)
        \/ BeginUnlocked(t)
        \/ MutateArray(t)
        \/ AssignUnlock(t)
        \/ ReSortUnlock(t)
        \/ IntersectionUnlock(t)
        \/ ReadUnlock(t)
        \/ HasUnlock(t)
        \/ SliceUnlock(t)
        \/ UnlockedReturn(t)

\* Goroutines calling one safeSet in any interleaving.
SafeSpec == SafeInit /\ [][SafeNext]_vars

\* C13: under any interleaving, the slice the wrapper's Slice returned
\* shows the complete contents the inner set had at one instant between
\* two whole mutators, and no later mutation changes what it shows.
C13_SnapshotIsolation ==
    \A t \in Threads :
        thr[t].snap # Absent => View(heap, thr[t].snap) = thr[t].at

\* A goroutine holds a snapshot of one element or more while another one,
\* after a whole mutation, is in the middle of the next one, with the array
\* written and p.rv not yet assigned.
C13_Witness ==
    \E t, u \in Threads :
        /\ thr[t].snap # Absent /\ Len(thr[t].at) >= 1
        /\ thr[u].pc = "mid"
        /\ thr[u].before # thr[t].at
        /\ View(heap, srv) # thr[u].before

\* A goroutine is in the inner call of a wrapper operation.
Inside(t) == thr[t].pc \in {"in", "mid"}

\* C14: while one goroutine executes Insert, Replace, Erase, ReSort or
\* Intersection on the inner set, no other goroutine executes a wrapper
\* operation that reads or writes the inner set's stored slice.
C14_WriterExclusion ==
    \A t, u \in Threads :
        (/\ t # u
         /\ Inside(t)
         /\ thr[t].op \in Mutators \cup {"ReSort", "Intersection"})
            => ~(Inside(u) /\ thr[u].op # "New")

\* C15: after w.Intersection(other) returns, the inner set of w holds the
\* elements of its previous contents that have an equal element in other.
C15_WrapperIntersection ==
    \A t \in Threads :
        (thr[t].pc = "idle" /\ thr[t].op = "Intersection")
            => thr[t].after = Filter(thr[t].before, thr[t].arg[2], 1)

\* C16: a goroutine that has left its wrapper call, by a return or by a
\* failure of the inner operation, holds neither the read nor the write
\* lock.
C16_LockReleased ==
    \A t \in Threads :
        thr[t].pc \in {"idle", "panicked"} => (lock.w # t /\ t \notin lock.r)

====
